---- MODULE Spec2Model ----
(***************************************************************************)
(* Conflict materialization and conflict-marker parsing of                 *)
(* lib/src/conflicts.rs.                                                   *)
(*                                                                         *)
(* Byte strings are sequences of one-character strings.  Positions in the  *)
(* parser are 0-based byte offsets as in the Rust code; the slice          *)
(* input[a..b] is Slice(input, a, b).                                      *)
(***************************************************************************)
EXTENDS Integers, Sequences, FiniteSets, TLC

\* the store's file table and conflict table, and the call in progress
VARIABLES file_table, conflict_table, call

vars == <<file_table, conflict_table, call>>

(***************************************************************************)
(* Bounds of the model.                                                    *)
(***************************************************************************)
\* longest text handed to parse_conflict, in lines
MaxParseLines == 4
\* largest expected number of removes / adds handed to parse_conflict
MaxArity == 2
\* largest number of removed parts, and of added parts, of a stored conflict
MaxParts == 2

(***************************************************************************)
(* Marker lines (conflicts.rs:27-30).                                      *)
(***************************************************************************)
CONFLICT_START_LINE == <<"<", "<", "<", "<", "<", "<", "<", "\n">>
CONFLICT_END_LINE == <<">", ">", ">", ">", ">", ">", ">", "\n">>
CONFLICT_MINUS_LINE == <<"-", "-", "-", "-", "-", "-", "-", "\n">>
CONFLICT_PLUS_LINE == <<"+", "+", "+", "+", "+", "+", "+", "\n">>

(***************************************************************************)
(* Slices and lines.                                                       *)
(***************************************************************************)
\* input[a..b] with 0-based, half-open Rust indices
Slice(input, a, b) == SubSeq(input, a + 1, b)

\* slice::split_inclusive(|b| *b == b'\n'): every line keeps its newline,
\* the last line may lack one, and the empty slice has no lines.
SplitInclusive(input) ==
    LET n == Len(input)
        RECURSIVE Go(_, _)
        Go(start, i) ==
            IF i > n
            THEN IF start > n THEN <<>> ELSE <<SubSeq(input, start, n)>>
            ELSE IF input[i] = "\n"
                 THEN <<SubSeq(input, start, i)>> \o Go(i + 1, i + 1)
                 ELSE Go(start, i + 1)
    IN Go(1, 1)

\* F applied to the value of v, which is computed once
With(v, F(_)) == CHOOSE r \in {F(x) : x \in {v}} : TRUE

RECURSIVE Concat(_)
\* the concatenation of a sequence of byte strings
Concat(ss) == IF ss = <<>> THEN <<>> ELSE Head(ss) \o Concat(Tail(ss))

\* line.strip_prefix(p) for a one-byte prefix p; the result is an Option
StartsWith(line, p) == Len(line) >= 1 /\ line[1] = p

(***************************************************************************)
(* MergeHunk (files.rs) and Option.                                        *)
(***************************************************************************)
Resolved(content) == [kind |-> "Resolved", content |-> content]
ConflictHunk(removes, adds) ==
    [kind |-> "Conflict", removes |-> removes, adds |-> adds]

None == [some |-> FALSE]
Some(v) == [some |-> TRUE, value |-> v]

\* a variant of ExtendLast that overwrites the last buffer
ReplaceLast(v, rest) == [v EXCEPT ![Len(v)] = rest]

\* v.last_mut().unwrap().extend_from_slice(rest)
ExtendLast(v, rest) == [v EXCEPT ![Len(v)] = @ \o rest]

(***************************************************************************)
(* TreeValue, ConflictPart and Conflict (backend.rs).  Ids are byte        *)
(* strings: sequences of numbers in 0..255.                                *)
(***************************************************************************)
Normal(id, executable) ==
    [kind |-> "Normal", id |-> id, executable |-> executable]
Symlink(id) == [kind |-> "Symlink", id |-> id]
Tree(id) == [kind |-> "Tree", id |-> id]
GitSubmodule(id) == [kind |-> "GitSubmodule", id |-> id]
NestedConflict(id) == [kind |-> "Conflict", id |-> id]

ConflictPart(value) == [value |-> value]
Conflict(removes, adds) == [removes |-> removes, adds |-> adds]

\* matches!(value, TreeValue::Normal { executable: false, .. })
IsPlainFile(value) == value.kind = "Normal" /\ ~value.executable

(***************************************************************************)
(* The content-addressed store (store.rs, backend.rs): two tables, the id  *)
(* of an object is the one-byte string holding its index in its table, so  *)
(* equal objects have equal ids.                                           *)
(***************************************************************************)
IdOf(index) == <<index>>

\* store.read_file / store.read_conflict
HasObject(table, id) == Len(id) = 1 /\ id[1] \in 1..Len(table)
ReadObject(table, id) == table[id[1]]

\* store.write_file / store.write_conflict: [table, id]
WriteObject(table, object) ==
    IF \E i \in 1..Len(table) : table[i] = object
    THEN [table |-> table,
          id |-> IdOf(CHOOSE i \in 1..Len(table) : table[i] = object)]
    ELSE [table |-> Append(table, object), id |-> IdOf(Len(table) + 1)]

(***************************************************************************)
(* describe_conflict_part, describe_conflict (conflicts.rs:32-70).         *)
(***************************************************************************)
HexDigits ==
    <<"0", "1", "2", "3", "4", "5", "6", "7",
      "8", "9", "a", "b", "c", "d", "e", "f">>

RECURSIVE Hex(_)
\* id.hex(): two lowercase hexadecimal digits per byte
Hex(id) ==
    IF id = <<>> THEN <<>>
    ELSE <<HexDigits[(Head(id) \div 16) + 1], HexDigits[(Head(id) % 16) + 1]>>
         \o Hex(Tail(id))

FileWithId ==
    <<"f", "i", "l", "e", " ", "w", "i", "t", "h", " ", "i", "d", " ">>
ExecutableFileWithId ==
    <<"e", "x", "e", "c", "u", "t", "a", "b", "l", "e", " ", "f", "i", "l",
      "e", " ", "w", "i", "t", "h", " ", "i", "d", " ">>
SymlinkWithId ==
    <<"s", "y", "m", "l", "i", "n", "k", " ", "w", "i", "t", "h", " ", "i",
      "d", " ">>
TreeWithId ==
    <<"t", "r", "e", "e", " ", "w", "i", "t", "h", " ", "i", "d", " ">>
GitSubmoduleWithId ==
    <<"G", "i", "t", " ", "s", "u", "b", "m", "o", "d", "u", "l", "e", " ",
      "w", "i", "t", "h", " ", "i", "d", " ">>
ConflictWithId ==
    <<"C", "o", "n", "f", "l", "i", "c", "t", " ", "w", "i", "t", "h", " ",
      "i", "d", " ">>
ConflictHeader == <<"C", "o", "n", "f", "l", "i", "c", "t", ":", "\n">>
RemovingPrefix == <<" ", " ", "R", "e", "m", "o", "v", "i", "n", "g", " ">>
AddingPrefix == <<" ", " ", "A", "d", "d", "i", "n", "g", " ">>

DescribeConflictPart(part) ==
    LET v == part.value
    IN CASE v.kind = "Normal" /\ ~v.executable -> FileWithId \o Hex(v.id)
         [] v.kind = "Normal" /\ v.executable ->
                ExecutableFileWithId \o Hex(v.id)
         [] v.kind = "Symlink" -> SymlinkWithId \o Hex(v.id)
         [] v.kind = "Tree" -> TreeWithId \o Hex(v.id)
         [] v.kind = "GitSubmodule" -> GitSubmoduleWithId \o Hex(v.id)
         [] v.kind = "Conflict" -> ConflictWithId \o Hex(v.id)

DescribeConflict(conflict) ==
    ConflictHeader
    \o Concat([i \in 1..Len(conflict.removes) |->
                 RemovingPrefix \o DescribeConflictPart(conflict.removes[i])
                 \o <<"\n">>])
    \o Concat([i \in 1..Len(conflict.adds) |->
                 AddingPrefix \o DescribeConflictPart(conflict.adds[i])
                 \o <<"\n">>])

(***************************************************************************)
(* file_parts, get_file_contents (conflicts.rs:72-103).                    *)
(***************************************************************************)
FileParts(parts) == SelectSeq(parts, LAMBDA part : IsPlainFile(part.value))

\* [panicked, content]: the read is unwrapped, and a part that is not a
\* plain file panics
GetFileContents(files, part) ==
    IF IsPlainFile(part.value) /\ HasObject(files, part.value.id)
    THEN [panicked |-> FALSE, content |-> ReadObject(files, part.value.id)]
    ELSE [panicked |-> TRUE, content |-> <<>>]

(***************************************************************************)
(* The line diff (diff.rs) and the line merge (files.rs), as the           *)
(* interfaces of section 6 describe them: a diff is the common leading     *)
(* lines, the differing middle and the common trailing lines; a merge is   *)
(* resolved when all sides are equal, and otherwise one conflict hunk      *)
(* between the lines common to all sides.                                  *)
(***************************************************************************)
Matching(content) == [kind |-> "Matching", content |-> content]
Different(left, right) == [kind |-> "Different", content |-> <<left, right>>]

\* the length of the shortest of the inputs
MinLen(inputs) ==
    IF inputs = <<>> THEN 0
    ELSE CHOOSE n \in {Len(inputs[i]) : i \in 1..Len(inputs)} :
           \A i \in 1..Len(inputs) : n <= Len(inputs[i])

\* the inputs share their first k lines
SharePrefix(inputs, k) ==
    \A i \in 1..Len(inputs) : SubSeq(inputs[i], 1, k) = SubSeq(inputs[1], 1, k)

\* the number of leading lines all the inputs share
CommonPrefixLen(inputs) ==
    CHOOSE k \in 0..MinLen(inputs) :
      /\ SharePrefix(inputs, k)
      /\ \A j \in (k + 1)..MinLen(inputs) : ~SharePrefix(inputs, j)

\* the inputs share their last k lines
ShareSuffix(inputs, k) ==
    \A i \in 1..Len(inputs) :
      SubSeq(inputs[i], Len(inputs[i]) - k + 1, Len(inputs[i]))
      = SubSeq(inputs[1], Len(inputs[1]) - k + 1, Len(inputs[1]))

\* the number of trailing lines all the inputs share after their first p lines
CommonSuffixLen(inputs, p) ==
    CHOOSE k \in 0..(MinLen(inputs) - p) :
      /\ ShareSuffix(inputs, k)
      /\ \A j \in (k + 1)..(MinLen(inputs) - p) : ~ShareSuffix(inputs, j)

\* the bytes of the lines of x after its first p and before its last s
Middle(x, p, s) == Concat(SubSeq(x, p + 1, Len(x) - s))

\* the hunks of two sides given as lines sharing p leading and s trailing lines
DiffOfLines(ls, p, s) ==
    <<Matching(Concat(SubSeq(ls[1], 1, p)))>>
    \o (IF Middle(ls[1], p, s) = <<>> /\ Middle(ls[2], p, s) = <<>> THEN <<>>
        ELSE <<Different(Middle(ls[1], p, s), Middle(ls[2], p, s))>>)
    \o <<Matching(Concat(SubSeq(ls[1], Len(ls[1]) - s + 1, Len(ls[1]))))>>

\* Diff::for_tokenizer(&[left, right], &find_line_ranges).hunks()
DiffHunks(left, right) ==
    With(<<SplitInclusive(left), SplitInclusive(right)>>,
         LAMBDA ls :
             With(CommonPrefixLen(ls),
                  LAMBDA p : With(CommonSuffixLen(ls, p),
                                  LAMBDA s : DiffOfLines(ls, p, s))))

MergeResolved(content) == [kind |-> "Resolved", content |-> content]
MergeConflict(hunks) == [kind |-> "Conflict", hunks |-> hunks]

\* the merge of sides given as lines sharing p leading and s trailing lines,
\* the first num_removes of them the removes
MergeOfLines(inputs, num_removes, p, s) ==
    LET prefix == Concat(SubSeq(inputs[1], 1, p))
        suffix == Concat(SubSeq(inputs[1], Len(inputs[1]) - s + 1,
                                Len(inputs[1])))
    IN IF \A i \in 1..Len(inputs) : Middle(inputs[i], p, s) = <<>>
       THEN MergeResolved(prefix \o suffix)
       ELSE MergeConflict(
              (IF prefix = <<>> THEN <<>> ELSE <<Resolved(prefix)>>)
              \o <<ConflictHunk(
                     [i \in 1..num_removes |-> Middle(inputs[i], p, s)],
                     [j \in 1..(Len(inputs) - num_removes) |->
                        Middle(inputs[num_removes + j], p, s)])>>
              \o (IF suffix = <<>> THEN <<>> ELSE <<Resolved(suffix)>>))

\* files::merge(&removed_slices, &added_slices)
Merge(removes, adds) ==
    IF removes \o adds = <<>> THEN MergeResolved(<<>>)
    ELSE With([i \in 1..(Len(removes) + Len(adds)) |->
                 SplitInclusive((removes \o adds)[i])],
              LAMBDA inputs :
                  With(CommonPrefixLen(inputs),
                       LAMBDA p :
                           With(CommonSuffixLen(inputs, p),
                                LAMBDA s :
                                    MergeOfLines(inputs, Len(removes), p, s))))

(***************************************************************************)
(* write_diff_hunks (conflicts.rs:105-140).                                *)
(***************************************************************************)
\* a variant of PrefixedLines without the check for empty content, where the
\* empty content counts as one empty line
PrefixedLinesUnchecked(prefix, content) ==
    IF content # <<>>
    THEN Concat([i \in 1..Len(SplitInclusive(content)) |->
                   <<prefix>> \o SplitInclusive(content)[i]])
    ELSE <<prefix>>

\* every line of content written after the one-byte prefix
PrefixedLines(prefix, content) ==
    IF content # <<>>
    THEN With(SplitInclusive(content),
              LAMBDA lines :
                  Concat([i \in 1..Len(lines) |-> <<prefix>> \o lines[i]]))
    ELSE <<>>

WriteDiffHunk(hunk) ==
    IF hunk.kind = "Matching"
    THEN PrefixedLines(" ", hunk.content)
    ELSE PrefixedLines("-", hunk.content[1]) \o PrefixedLines("+", hunk.content[2])

WriteDiffHunks(left, right) ==
    With(DiffHunks(left, right),
         LAMBDA hunks :
             Concat([i \in 1..Len(hunks) |-> WriteDiffHunk(hunks[i])]))

(***************************************************************************)
(* materialize_conflict (conflicts.rs:142-205).                            *)
(***************************************************************************)
Min(a, b) == IF a <= b THEN a ELSE b

\* the marked block of one MergeHunk::Conflict (conflicts.rs:179-199)
MaterializeConflictHunk(removes, adds) ==
    LET num_diffs == Min(Len(removes), Len(adds))
    IN CONFLICT_START_LINE
       \o Concat([i \in 1..num_diffs |->
                    CONFLICT_MINUS_LINE \o CONFLICT_PLUS_LINE
                    \o WriteDiffHunks(removes[i], adds[i])])
       \o Concat([i \in 1..(Len(removes) - num_diffs) |->
                    CONFLICT_MINUS_LINE \o removes[num_diffs + i]])
       \o Concat([i \in 1..(Len(adds) - num_diffs) |->
                    CONFLICT_PLUS_LINE \o adds[num_diffs + i]])
       \o CONFLICT_END_LINE

\* the output written for a MergeResult (conflicts.rs:169-203)
WriteMergeResult(merge_result) ==
    IF merge_result.kind = "Resolved"
    THEN merge_result.content
    ELSE Concat([i \in 1..Len(merge_result.hunks) |->
                   LET hunk == merge_result.hunks[i]
                   IN IF hunk.kind = "Resolved" THEN hunk.content
                      ELSE MaterializeConflictHunk(hunk.removes, hunk.adds)])

\* a variant of AllFiles that looks at the adds only
AllAddsFiles(conflict) == Len(FileParts(conflict.adds)) = Len(conflict.adds)

\* all parts are plain files (conflicts.rs:148-150)
AllFiles(conflict) ==
    /\ Len(FileParts(conflict.adds)) = Len(conflict.adds)
    /\ Len(FileParts(conflict.removes)) = Len(conflict.removes)

\* the contents of the parts, read in order
ReadParts(files, parts) ==
    [i \in 1..Len(parts) |-> GetFileContents(files, parts[i])]

\* the structured path once the contents are read (conflicts.rs:165-204)
MaterializeFiles(removed, added) ==
    IF \/ \E i \in 1..Len(added) : added[i].panicked
       \/ \E i \in 1..Len(removed) : removed[i].panicked
    THEN [status |-> "Panic", output |-> <<>>,
          calls |-> Len(added) + Len(removed)]
    ELSE With(Merge([i \in 1..Len(removed) |-> removed[i].content],
                    [i \in 1..Len(added) |-> added[i].content]),
              LAMBDA merge_result :
                  [status |-> "Ok", output |-> WriteMergeResult(merge_result),
                   calls |-> Len(added) + Len(removed)])

\* [status, output, calls]: status is "Ok" or "Panic", calls the number of
\* store reads attempted.  The fail-th store read of the call fails
\* (fail = 0: none does) and its unwrap panics; the adds are read before
\* the removes.
MaterializeConflict(files, conflict, fail) ==
    IF ~AllFiles(conflict)
    THEN [status |-> "Ok", output |-> DescribeConflict(conflict), calls |-> 0]
    ELSE IF fail \in 1..(Len(conflict.adds) + Len(conflict.removes))
    THEN [status |-> "Panic", output |-> <<>>, calls |-> fail]
    ELSE With(ReadParts(files, FileParts(conflict.removes)),
              LAMBDA removed :
                  With(ReadParts(files, FileParts(conflict.adds)),
                       LAMBDA added : MaterializeFiles(removed, added)))

(***************************************************************************)
(* parse_conflict_hunk (conflicts.rs:269-316).                             *)
(***************************************************************************)
HunkStart ==
    [minus_seen |-> FALSE, plus_seen |-> FALSE, body_seen |-> FALSE,
     removes |-> <<>>, adds |-> <<>>, returned |-> FALSE]

\* one iteration of the loop over the lines of the block body
HunkLine(s, line) ==
    IF s.returned THEN s
    ELSE IF line = CONFLICT_MINUS_LINE
    THEN [s EXCEPT !.minus_seen = TRUE,
                   !.plus_seen = IF s.body_seen THEN FALSE ELSE @,
                   !.body_seen = FALSE,
                   !.removes = Append(@, <<>>)]
    ELSE IF line = CONFLICT_PLUS_LINE
    THEN [s EXCEPT !.plus_seen = TRUE,
                   !.minus_seen = IF s.body_seen THEN FALSE ELSE @,
                   !.body_seen = FALSE,
                   !.adds = Append(@, <<>>)]
    ELSE IF s.minus_seen /\ s.plus_seen
    THEN IF StartsWith(line, "-")
         THEN [s EXCEPT !.body_seen = TRUE,
                        !.removes = ExtendLast(@, Tail(line))]
         ELSE IF StartsWith(line, "+")
         THEN [s EXCEPT !.body_seen = TRUE,
                        !.adds = ExtendLast(@, Tail(line))]
         ELSE IF StartsWith(line, " ")
         THEN [s EXCEPT !.body_seen = TRUE,
                        !.removes = ExtendLast(@, Tail(line)),
                        !.adds = ExtendLast(@, Tail(line))]
         ELSE [s EXCEPT !.body_seen = TRUE, !.returned = TRUE]
    ELSE IF s.minus_seen
    THEN [s EXCEPT !.body_seen = TRUE, !.removes = ExtendLast(@, line)]
    ELSE IF s.plus_seen
    THEN [s EXCEPT !.body_seen = TRUE, !.adds = ExtendLast(@, line)]
    ELSE [s EXCEPT !.returned = TRUE]

RECURSIVE HunkLoop(_, _, _)
\* the loop from its k-th line on
HunkLoop(s, lines, k) ==
    IF k > Len(lines) THEN s
    ELSE With(HunkLine(s, lines[k]), LAMBDA t : HunkLoop(t, lines, k + 1))

\* a variant of HunkResult that forgets that the loop gave up
HunkResultAlways(s) == ConflictHunk(s.removes, s.adds)

\* the hunk returned (conflicts.rs:301, 311, 315)
HunkResult(s) ==
    IF s.returned THEN Resolved(<<>>) ELSE ConflictHunk(s.removes, s.adds)

ParseConflictHunk(input) ==
    With(SplitInclusive(input),
         LAMBDA lines : With(HunkLoop(HunkStart, lines, 1), HunkResult))

(***************************************************************************)
(* parse_conflict (conflicts.rs:227-267).                                  *)
(***************************************************************************)
ScanStart ==
    [hunks |-> <<>>, pos |-> 0, resolved_start |-> 0, conflict_start |-> None]

\* a variant of ArityMatches without the arity check
ArityIgnored(hunk, num_removes, num_adds) == hunk.kind = "Conflict"

\* the arm guard of the match at conflicts.rs:241-244
ArityMatches(hunk, num_removes, num_adds) ==
    /\ hunk.kind = "Conflict"
    /\ Len(hunk.removes) = num_removes
    /\ Len(hunk.adds) = num_adds

\* the end-marker line of an open block (conflicts.rs:239-254)
ScanEndLine(input, num_removes, num_adds, s, line, hunk) ==
    IF ArityMatches(hunk, num_removes, num_adds)
    THEN LET resolved_slice ==
                 Slice(input, s.resolved_start, s.conflict_start.value)
             flushed ==
                 IF resolved_slice # <<>>
                 THEN Append(s.hunks, Resolved(resolved_slice))
                 ELSE s.hunks
         IN [s EXCEPT !.hunks = Append(flushed, hunk),
                      !.resolved_start = s.pos + Len(line),
                      !.conflict_start = None,
                      !.pos = s.pos + Len(line)]
    ELSE [s EXCEPT !.conflict_start = None, !.pos = s.pos + Len(line)]

\* a variant of StartLine that keeps the start of a block already open
StartLineKeepFirst(s, line) ==
    IF s.conflict_start.some
    THEN [s EXCEPT !.pos = s.pos + Len(line)]
    ELSE [s EXCEPT !.conflict_start = Some(s.pos), !.pos = s.pos + Len(line)]

\* a start-marker line (conflicts.rs:236-237, 256)
StartLine(s, line) ==
    [s EXCEPT !.conflict_start = Some(s.pos), !.pos = s.pos + Len(line)]

\* conflict_body, the bytes handed to parse_conflict_hunk (conflicts.rs:239)
ConflictBody(input, s) ==
    Slice(input, s.conflict_start.value + Len(CONFLICT_START_LINE), s.pos)

\* one iteration of the loop over the lines of the input
ScanLine(input, num_removes, num_adds, s, line) ==
    IF line = CONFLICT_START_LINE
    THEN StartLine(s, line)
    ELSE IF s.conflict_start.some /\ line = CONFLICT_END_LINE
    THEN With(ParseConflictHunk(ConflictBody(input, s)),
              LAMBDA hunk :
                  ScanEndLine(input, num_removes, num_adds, s, line, hunk))
    ELSE [s EXCEPT !.pos = s.pos + Len(line)]

RECURSIVE ScanLoop(_, _, _, _, _, _)
\* the loop from its k-th line on
ScanLoop(input, num_removes, num_adds, s, lines, k) ==
    IF k > Len(lines) THEN s
    ELSE With(ScanLine(input, num_removes, num_adds, s, lines[k]),
              LAMBDA t : ScanLoop(input, num_removes, num_adds, t, lines, k + 1))

\* a variant of ScanResult that takes a text without an accepted block for
\* resolved content
ScanResultWhole(input, s) ==
    IF s.hunks = <<>> THEN Some(<<Resolved(input)>>)
    ELSE IF s.resolved_start < Len(input)
    THEN Some(Append(s.hunks,
                     Resolved(Slice(input, s.resolved_start, Len(input)))))
    ELSE Some(s.hunks)

\* a variant of ScanResult that drops the text after the last accepted block
ScanResultNoTail(input, s) ==
    IF s.hunks = <<>> THEN None ELSE Some(s.hunks)

\* the result once the lines are scanned (conflicts.rs:259-266)
ScanResult(input, s) ==
    IF s.hunks = <<>> THEN None
    ELSE IF s.resolved_start < Len(input)
    THEN Some(Append(s.hunks,
                     Resolved(Slice(input, s.resolved_start, Len(input)))))
    ELSE Some(s.hunks)

ParseConflict(input, num_removes, num_adds) ==
    IF input = <<>> THEN None
    ELSE With(SplitInclusive(input),
              LAMBDA lines :
                  With(ScanLoop(input, num_removes, num_adds, ScanStart,
                                lines, 1),
                       LAMBDA s : ScanResult(input, s)))

(***************************************************************************)
(* conflict_to_materialized_value (conflicts.rs:207-219).                  *)
(* The fail-th store call of the operation fails (fail = 0: none does).    *)
(* A result is [status, value, files, calls, failed]: status is "Ok",      *)
(* "Err" (an error value returned to the caller) or "Panic", calls the     *)
(* number of store calls attempted, failed the store call that failed.     *)
(***************************************************************************)
\* the write of the materialized buffer, and the value returned
WriteMaterialized(files, fail, m) ==
    IF m.status # "Ok"
    THEN [status |-> "Panic", value |-> None, files |-> files,
          calls |-> m.calls, failed |-> "read_file"]
    ELSE IF fail = m.calls + 1
    THEN [status |-> "Panic", value |-> None, files |-> files,
          calls |-> m.calls + 1, failed |-> "write_file"]
    ELSE With(WriteObject(files, m.output),
              LAMBDA w :
                  [status |-> "Ok", value |-> Some(Normal(w.id, FALSE)),
                   files |-> w.table, calls |-> m.calls + 1,
                   failed |-> "none"])

ConflictToMaterializedValue(files, conflict, fail) ==
    With(MaterializeConflict(files, conflict, fail),
         LAMBDA m : WriteMaterialized(files, fail, m))

(***************************************************************************)
(* update_conflict_from_content (conflicts.rs:318-387).                    *)
(* A result is [status, value, files, conflicts, calls, failed, parsed,    *)
(* written]: parsed tells whether parse_conflict was called, written lists *)
(* the blobs written, in order.                                            *)
(***************************************************************************)
\* a variant of ContentUnchanged that never takes the short cut
ContentNeverUnchanged(content, old_content) == FALSE

\* content == old_content (conflicts.rs:333)
ContentUnchanged(content, old_content) == content = old_content

\* vec![vec![]; n]
EmptyBuffers(n) == [i \in 1..n |-> <<>>]

\* a variant of ApplyResolved that leaves the add buffers alone
ApplyResolvedToRemoves(b, slice) ==
    [b EXCEPT !.removed_content = [i \in 1..Len(@) |-> @[i] \o slice]]

\* MergeHunk::Resolved(slice) (conflicts.rs:342-349)
ApplyResolved(b, slice) ==
    [b EXCEPT !.removed_content = [i \in 1..Len(@) |-> @[i] \o slice],
              !.added_content = [i \in 1..Len(@) |-> @[i] \o slice]]

\* MergeHunk::Conflict { removes, adds } (conflicts.rs:350-357); indexing
\* past the end of a buffer vector panics
ApplyConflict(b, removes, adds) ==
    IF Len(removes) > Len(b.removed_content) \/ Len(adds) > Len(b.added_content)
    THEN [b EXCEPT !.panicked = TRUE]
    ELSE [b EXCEPT
            !.removed_content =
                [i \in 1..Len(@) |->
                   IF i <= Len(removes) THEN @[i] \o removes[i] ELSE @[i]],
            !.added_content =
                [i \in 1..Len(@) |->
                   IF i <= Len(adds) THEN @[i] \o adds[i] ELSE @[i]]]

\* one iteration of the loop over the parsed hunks (conflicts.rs:340-359)
ApplyHunk(b, hunk) ==
    IF b.panicked THEN b
    ELSE IF hunk.kind = "Resolved" THEN ApplyResolved(b, hunk.content)
    ELSE ApplyConflict(b, hunk.removes, hunk.adds)

RECURSIVE ApplyHunks(_, _, _)
\* the loop from its k-th hunk on
ApplyHunks(b, hunks, k) ==
    IF k > Len(hunks) THEN b
    ELSE With(ApplyHunk(b, hunks[k]), LAMBDA c : ApplyHunks(c, hunks, k + 1))

\* the remove and add buffers rebuilt from the hunks (conflicts.rs:337-359)
RebuildContent(hunks, num_removes, num_adds) ==
    ApplyHunks([removed_content |-> EmptyBuffers(num_removes),
                added_content |-> EmptyBuffers(num_adds),
                panicked |-> FALSE],
               hunks, 1)

\* a variant of StorePart that stores a plain file in place of the part
StorePartPlain(w, i, buf, wr) ==
    IF w.parts[i].value.kind = "Normal"
    THEN [w EXCEPT !.files = wr.table, !.calls = @ + 1,
                   !.written = Append(@, buf),
                   !.parts[i].value = Normal(wr.id, FALSE)]
    ELSE [w EXCEPT !.files = wr.table, !.calls = @ + 1,
                   !.written = Append(@, buf), !.status = "Panic"]

\* the part looked at once its blob is written (conflicts.rs:365-372,
\* 376-380): the id of a Normal value is replaced, executable or not
StorePart(w, i, buf, wr) ==
    IF w.parts[i].value.kind = "Normal"
    THEN [w EXCEPT !.files = wr.table, !.calls = @ + 1,
                   !.written = Append(@, buf),
                   !.parts[i].value.id = wr.id]
    ELSE [w EXCEPT !.files = wr.table, !.calls = @ + 1,
                   !.written = Append(@, buf), !.status = "Panic"]

\* one iteration of a write loop (conflicts.rs:363-373, 374-381): the blob
\* is written before the part is looked at
WritePart(w, i, buf, fail) ==
    IF w.status # "Ok" THEN w
    ELSE IF fail = w.calls + 1
    THEN [w EXCEPT !.status = "Err", !.calls = @ + 1, !.failed = "write_file"]
    ELSE With(WriteObject(w.files, buf), LAMBDA wr : StorePart(w, i, buf, wr))

RECURSIVE WriteParts(_, _, _, _)
\* the loop from its i-th buffer on
WriteParts(w, bufs, i, fail) ==
    IF i > Len(bufs) THEN w
    ELSE With(WritePart(w, i, bufs[i], fail),
              LAMBDA v : WriteParts(v, bufs, i + 1, fail))

\* store.write_conflict and the result (conflicts.rs:382-383)
WriteConflict(conflicts, removes, wa, fail) ==
    IF wa.status # "Ok"
    THEN [status |-> wa.status, value |-> None, files |-> wa.files,
          conflicts |-> conflicts, calls |-> wa.calls, failed |-> wa.failed,
          parsed |-> TRUE, written |-> wa.written]
    ELSE IF fail = wa.calls + 1
    THEN [status |-> "Err", value |-> None, files |-> wa.files,
          conflicts |-> conflicts, calls |-> wa.calls + 1,
          failed |-> "write_conflict", parsed |-> TRUE,
          written |-> wa.written]
    ELSE With(WriteObject(conflicts, Conflict(removes, wa.parts)),
              LAMBDA wc :
                  [status |-> "Ok", value |-> Some(wc.id), files |-> wa.files,
                   conflicts |-> wc.table, calls |-> wa.calls + 1,
                   failed |-> "none", parsed |-> TRUE,
                   written |-> wa.written])

\* the two write loops (conflicts.rs:363-381): the removes, then the adds
WriteContent(files, conflicts, conflict, b, calls, fail) ==
    With(WriteParts([status |-> "Ok", files |-> files, calls |-> calls,
                     failed |-> "none", written |-> <<>>,
                     parts |-> conflict.removes],
                    b.removed_content, 1, fail),
         LAMBDA wr :
             With(WriteParts([wr EXCEPT !.parts = conflict.adds],
                             b.added_content, 1, fail),
                  LAMBDA wa : WriteConflict(conflicts, wr.parts, wa, fail)))

\* a result that leaves the store as it was
Unwritten(status, value, files, conflicts, calls, failed, parsed) ==
    [status |-> status, value |-> value, files |-> files,
     conflicts |-> conflicts, calls |-> calls, failed |-> failed,
     parsed |-> parsed, written |-> <<>>]

\* a variant of Unparsed that reports an error
UnparsedErr(files, conflicts, calls) ==
    Unwritten("Err", None, files, conflicts, calls, "none", TRUE)

\* parse_conflict returned None (conflicts.rs:384-386)
Unparsed(files, conflicts, calls) ==
    Unwritten("Ok", None, files, conflicts, calls, "none", TRUE)

\* the branch on the result of parse_conflict (conflicts.rs:339-386)
UpdateParsed(files, conflicts, conflict, calls, fail, parsed) ==
    IF ~parsed.some
    THEN Unparsed(files, conflicts, calls)
    ELSE With(RebuildContent(parsed.value, Len(conflict.removes),
                             Len(conflict.adds)),
              LAMBDA b :
                  IF b.panicked
                  THEN Unwritten("Panic", None, files, conflicts, calls,
                                 "none", TRUE)
                  ELSE WriteContent(files, conflicts, conflict, b, calls, fail))

\* what follows the materialization of the old content (conflicts.rs:332-339)
UpdateMaterialized(files, conflicts, conflict_id, conflict, content, fail, m) ==
    IF m.status # "Ok"
    THEN Unwritten("Panic", None, files, conflicts, 1 + m.calls, "read_file",
                   FALSE)
    ELSE IF ContentUnchanged(content, m.output)
    THEN Unwritten("Ok", Some(conflict_id), files, conflicts, 1 + m.calls,
                   "none", FALSE)
    ELSE With(ParseConflict(content, Len(conflict.removes), Len(conflict.adds)),
              LAMBDA parsed :
                  UpdateParsed(files, conflicts, conflict, 1 + m.calls, fail,
                               parsed))

\* what follows store.read_conflict (conflicts.rs:324-332)
UpdateReadConflict(files, conflicts, conflict_id, conflict, content, fail) ==
    With(MaterializeConflict(files, conflict, IF fail > 1 THEN fail - 1 ELSE 0),
         LAMBDA m :
             UpdateMaterialized(files, conflicts, conflict_id, conflict,
                                content, fail, m))

UpdateConflictFromContent(files, conflicts, conflict_id, content, fail) ==
    IF fail = 1 \/ ~HasObject(conflicts, conflict_id)
    THEN [status |-> "Err", value |-> None, files |-> files,
          conflicts |-> conflicts, calls |-> 1, failed |-> "read_conflict",
          parsed |-> FALSE, written |-> <<>>]
    ELSE With(ReadObject(conflicts, conflict_id),
              LAMBDA conflict :
                  UpdateReadConflict(files, conflicts, conflict_id, conflict,
                                     content, fail))

(***************************************************************************)
(* Inputs of parse_conflict: texts of at most MaxParseLines lines.         *)
(***************************************************************************)
\* the terminated lines a text is made of: the four markers, the three
\* prefixed lines of an embedded diff, and plain lines
ParseLines ==
    {CONFLICT_START_LINE, CONFLICT_END_LINE, CONFLICT_MINUS_LINE,
     CONFLICT_PLUS_LINE, <<"-", "a", "\n">>, <<"+", "b", "\n">>,
     <<" ", "c", "\n">>, <<"a", "\n">>}

\* a final line without a newline
OpenLines == {<<"a">>}

\* all sequences over S of length at most n
SeqsUpTo(S, n) == UNION {[1..k -> S] : k \in 0..n}

\* the texts of examples 1 and 2 of the specification
Example1Text ==
    <<"a", "\n">> \o CONFLICT_START_LINE \o CONFLICT_MINUS_LINE
    \o CONFLICT_PLUS_LINE
    \o <<" ", "a", "\n", "-", "b", "\n", "+", "x", "\n", " ", "c", "\n">>
    \o CONFLICT_END_LINE
MergedText == <<"m", "e", "r", "g", "e", "d", "\n">>

\* a block of one remove, a plain line, a block of one add, an open line
TwoBlocksText ==
    CONFLICT_START_LINE \o CONFLICT_MINUS_LINE \o CONFLICT_END_LINE
    \o <<"a", "\n">>
    \o CONFLICT_START_LINE \o CONFLICT_PLUS_LINE \o CONFLICT_END_LINE
    \o <<"a">>

\* a block with a malformed body, then a block with an empty body
MalformedThenEmptyText ==
    CONFLICT_START_LINE \o <<"a", "\n">> \o CONFLICT_END_LINE
    \o CONFLICT_START_LINE \o CONFLICT_END_LINE

ParseTexts ==
    {Concat(ls) : ls \in SeqsUpTo(ParseLines, MaxParseLines)}
    \cup {Concat(ls) \o l : ls \in SeqsUpTo(ParseLines, MaxParseLines - 1),
                            l \in OpenLines}
    \cup {Example1Text, MergedText, TwoBlocksText, MalformedThenEmptyText}

(***************************************************************************)
(* SpecParse: parse_conflict applied to every text and expected arity.     *)
(***************************************************************************)
InitParse ==
    /\ file_table = <<>>
    /\ conflict_table = <<>>
    /\ \E input \in ParseTexts : call = [op |-> "input", input |-> input]

ParseConflictCall ==
    /\ call.op = "input"
    /\ \E num_removes \in 0..MaxArity, num_adds \in 0..MaxArity :
         call' = [op |-> "parse_conflict",
                  input |-> call.input,
                  num_removes |-> num_removes,
                  num_adds |-> num_adds,
                  result |-> ParseConflict(call.input, num_removes, num_adds)]
    /\ UNCHANGED <<file_table, conflict_table>>

NextParse == ParseConflictCall

SpecParse == InitParse /\ [][NextParse]_vars

(***************************************************************************)
(* The stored conflicts the operations are applied to.                     *)
(***************************************************************************)
\* the k-th file of the initial store: a shared first line and an own one
FileContent(k) == <<"a", "\n", HexDigits[k + 1], "\n">>

InitFiles == [k \in 1..(2 * MaxParts) |-> FileContent(k)]

\* what a part that is not a plain file can be
NonPlainValues(id) ==
    {Normal(id, TRUE), Symlink(id), Tree(id), GitSubmodule(id),
     NestedConflict(id)}

\* conflicts of plain files: the removes are the first files, the adds
\* either the same files or the files after them
FileConflicts ==
    {Conflict([i \in 1..nr |-> ConflictPart(Normal(IdOf(i), FALSE))],
              [j \in 1..na |-> ConflictPart(Normal(IdOf(shift + j), FALSE))]) :
       nr \in 0..MaxParts, na \in 0..MaxParts, shift \in {0, MaxParts}}

\* a conflict of plain files with one part replaced by something else
ReplacedRemoves(c) ==
    UNION {{[c EXCEPT !.removes[i].value = v] :
              v \in NonPlainValues(c.removes[i].value.id)} :
             i \in 1..Len(c.removes)}
ReplacedAdds(c) ==
    UNION {{[c EXCEPT !.adds[j].value = v] :
              v \in NonPlainValues(c.adds[j].value.id)} :
             j \in 1..Len(c.adds)}

MixedConflicts ==
    UNION {ReplacedRemoves(c) \cup ReplacedAdds(c) : c \in FileConflicts}

StoredConflicts == FileConflicts \cup MixedConflicts

(***************************************************************************)
(* The new contents handed to update_conflict_from_content: a marked       *)
(* block of any arity with edited sides, between resolved lines, or a text *)
(* without a block.                                                        *)
(***************************************************************************)
EditedSlices == {<<>>, <<"x", "\n">>}
\* the resolved text before and after the block: none, or a line on each side
ResolvedFrames == {<<<<>>, <<>>>>, <<<<"r", "\n">>, <<"s", "\n">>>>}

EditedBlocks ==
    {MaterializeConflictHunk(removes, adds) :
       removes \in UNION {[1..n -> EditedSlices] : n \in 0..MaxParts},
       adds \in UNION {[1..n -> EditedSlices] : n \in 0..MaxParts}}

UpdateTexts ==
    {frame[1] \o block \o frame[2] :
       frame \in ResolvedFrames, block \in EditedBlocks}
    \cup {<<>>, MergedText, CONFLICT_START_LINE, <<"a">>}

(***************************************************************************)
(* The operations, called on a store holding one conflict.                 *)
(***************************************************************************)
Idle == [op |-> "idle"]

InitStore ==
    /\ file_table = InitFiles
    /\ \E c \in StoredConflicts : conflict_table = <<c>>
    /\ call = Idle

\* the store calls one operation can make: a conflict read, a read and a
\* write per part, a conflict write
StoreCalls == 2 + 4 * MaxParts

\* a failure chosen for a call happened in it
Happened(fail, result) == IF fail = 0 THEN TRUE ELSE result.calls >= fail

MaterializeConflictCall(fails) ==
    /\ call = Idle
    /\ \E i \in 1..Len(conflict_table), fail \in fails :
         \E result \in {MaterializeConflict(file_table, conflict_table[i], fail)} :
           /\ Happened(fail, result)
           /\ call' = [op |-> "materialize_conflict",
                       conflict |-> conflict_table[i],
                       fail |-> fail, result |-> result]
    /\ UNCHANGED <<file_table, conflict_table>>

ConflictToMaterializedValueCall(fails) ==
    /\ call = Idle
    /\ \E i \in 1..Len(conflict_table), fail \in fails :
         \E result \in {ConflictToMaterializedValue(
                            file_table, conflict_table[i], fail)} :
           /\ Happened(fail, result)
           /\ call' = [op |-> "conflict_to_materialized_value",
                       conflict |-> conflict_table[i], fail |-> fail,
                       result |-> result]
           /\ file_table' = result.files
    /\ UNCHANGED conflict_table

\* the new content is the old content or one of the texts
UpdateConflictFromContentCall(fails) ==
    /\ call = Idle
    /\ \E i \in 1..Len(conflict_table), fail \in fails :
         \E old \in {MaterializeConflict(file_table, conflict_table[i], 0)} :
           \E content \in UpdateTexts \cup {old.output} :
             \E result \in {UpdateConflictFromContent(
                                file_table, conflict_table, IdOf(i), content,
                                fail)} :
               /\ Happened(fail, result)
               /\ call' = [op |-> "update_conflict_from_content",
                           conflict_id |-> IdOf(i),
                           conflict |-> conflict_table[i],
                           content |-> content, old_content |-> old.output,
                           fail |-> fail, files |-> file_table,
                           result |-> result]
               /\ file_table' = result.files
               /\ conflict_table' = result.conflicts

(***************************************************************************)
(* Spec: the store never fails.                                            *)
(***************************************************************************)
Init == InitStore

Next ==
    \/ MaterializeConflictCall({0})
    \/ ConflictToMaterializedValueCall({0})
    \/ UpdateConflictFromContentCall({0})

Spec == Init /\ [][Next]_vars

(***************************************************************************)
(* SpecFail: one store call of the operation fails.                        *)
(***************************************************************************)
NextFail ==
    \/ MaterializeConflictCall(1..StoreCalls)
    \/ ConflictToMaterializedValueCall(1..StoreCalls)
    \/ UpdateConflictFromContentCall(1..StoreCalls)

SpecFail == Init /\ [][NextFail]_vars

(***************************************************************************)
(* SpecRound: a conflict of plain files with any contents is materialized, *)
(* the output parsed with the conflict's arity, and the remove and add     *)
(* buffers rebuilt from the hunks.                                         *)
(***************************************************************************)
\* file contents and hunk slices: empty, one or two lines, a last line
\* without a newline, a line that equals a marker
RoundContents ==
    {<<>>, <<"a", "\n">>, <<"b", "\n">>, <<"a", "\n", "b", "\n">>, <<"a">>,
     CONFLICT_END_LINE}

RECURSIVE WriteAll(_, _, _)
\* the table after the objects from the k-th on are written to it
WriteAll(table, objects, k) ==
    IF k > Len(objects) THEN table
    ELSE With(WriteObject(table, objects[k]),
              LAMBDA w : WriteAll(w.table, objects, k + 1))

\* the plain-file parts holding the contents in the table
PartsOf(table, contents) ==
    [i \in 1..Len(contents) |->
       ConflictPart(Normal(WriteObject(table, contents[i]).id, FALSE))]

\* the contents of the plain-file parts
ContentsOf(table, parts) ==
    [i \in 1..Len(parts) |-> ReadObject(table, parts[i].value.id)]

InitRound ==
    /\ \E removes \in SeqsUpTo(RoundContents, MaxParts),
          adds \in SeqsUpTo(RoundContents, MaxParts) :
         \E table \in {WriteAll(<<>>, removes \o adds, 1)} :
           /\ file_table = table
           /\ conflict_table =
                <<Conflict(PartsOf(table, removes), PartsOf(table, adds))>>
    /\ call = Idle

RoundParse ==
    /\ call.op = "materialize_conflict"
    /\ call.result.status = "Ok"
    /\ call' = [op |-> "parse_conflict",
                conflict |-> call.conflict,
                input |-> call.result.output,
                num_removes |-> Len(call.conflict.removes),
                num_adds |-> Len(call.conflict.adds),
                result |-> ParseConflict(call.result.output,
                                         Len(call.conflict.removes),
                                         Len(call.conflict.adds))]
    /\ UNCHANGED <<file_table, conflict_table>>

RoundRebuild ==
    /\ call.op = "parse_conflict"
    /\ call.result.some
    /\ call' = [op |-> "rebuild",
                conflict |-> call.conflict,
                hunks |-> call.result.value,
                result |-> RebuildContent(call.result.value,
                                          call.num_removes, call.num_adds)]
    /\ UNCHANGED <<file_table, conflict_table>>

NextRound ==
    \/ MaterializeConflictCall({0})
    \/ RoundParse
    \/ RoundRebuild

SpecRound == InitRound /\ [][NextRound]_vars

(***************************************************************************)
(* SpecHunk: one conflict hunk with any slices is rendered as a marked     *)
(* block and the block parsed with the hunk's arity.                       *)
(***************************************************************************)
InitHunk ==
    /\ file_table = <<>>
    /\ conflict_table = <<>>
    /\ \E removes \in SeqsUpTo(RoundContents, MaxParts),
          adds \in SeqsUpTo(RoundContents, MaxParts) :
         call = [op |-> "hunk", removes |-> removes, adds |-> adds]

HunkMaterialize ==
    /\ call.op = "hunk"
    /\ call' = [op |-> "materialize_hunk",
                removes |-> call.removes, adds |-> call.adds,
                output |-> MaterializeConflictHunk(call.removes, call.adds)]
    /\ UNCHANGED <<file_table, conflict_table>>

HunkParse ==
    /\ call.op = "materialize_hunk"
    /\ call' = [op |-> "parse_hunk",
                removes |-> call.removes, adds |-> call.adds,
                input |-> call.output,
                result |-> ParseConflict(call.output, Len(call.removes),
                                         Len(call.adds))]
    /\ UNCHANGED <<file_table, conflict_table>>

NextHunk == HunkMaterialize \/ HunkParse

SpecHunk == InitHunk /\ [][NextHunk]_vars

(***************************************************************************)
(* SpecDiff: write_diff_hunks is applied to a pair of slices.              *)
(***************************************************************************)
MaxDiffLines == 2

\* the lines of the slices: plain lines and a line that looks like a diff line
DiffLines == {<<"a", "\n">>, <<"b", "\n">>, <<"-", "c", "\n">>}

\* slices of up to MaxDiffLines lines, the last of which may lack its newline
DiffContents ==
    {Concat(ls) : ls \in SeqsUpTo(DiffLines, MaxDiffLines)}
    \cup {Concat(ls) \o <<"a">> : ls \in SeqsUpTo(DiffLines, MaxDiffLines - 1)}

InitDiff ==
    /\ file_table = <<>>
    /\ conflict_table = <<>>
    /\ \E left \in DiffContents, right \in DiffContents :
         call = [op |-> "diff", left |-> left, right |-> right]

WriteDiffHunksCall ==
    /\ call.op = "diff"
    /\ call' = [op |-> "write_diff_hunks",
                left |-> call.left,
                right |-> call.right,
                output |-> WriteDiffHunks(call.left, call.right)]
    /\ UNCHANGED <<file_table, conflict_table>>

NextDiff == WriteDiffHunksCall

SpecDiff == InitDiff /\ [][NextDiff]_vars

(***************************************************************************)
(* SpecScan: the loop of parse_conflict taken one line at a time.  The     *)
(* call holds the lines, the index k of the next line, the locals s of the *)
(* loop, the locals prev before the last line, and the body handed to      *)
(* parse_conflict_hunk at the last line, if one was.                       *)
(***************************************************************************)
MaxScanLines == 4

ScanLines ==
    {CONFLICT_START_LINE, CONFLICT_END_LINE, CONFLICT_MINUS_LINE,
     <<"a", "\n">>}

ScanTexts == {Concat(ls) : ls \in SeqsUpTo(ScanLines, MaxScanLines)} \ {<<>>}

InitScan ==
    /\ file_table = <<>>
    /\ conflict_table = <<>>
    /\ \E input \in ScanTexts, num_removes \in 0..MaxArity,
          num_adds \in 0..MaxArity :
         call = [op |-> "scan",
                 input |-> input,
                 num_removes |-> num_removes,
                 num_adds |-> num_adds,
                 lines |-> SplitInclusive(input),
                 k |-> 1,
                 s |-> ScanStart,
                 prev |-> ScanStart,
                 body |-> None]

\* one iteration of the loop at conflicts.rs:235-257
ScanStep ==
    /\ call.op = "scan"
    /\ call.k <= Len(call.lines)
    /\ call' = [call EXCEPT
                  !.k = @ + 1,
                  !.prev = call.s,
                  !.s = ScanLine(call.input, call.num_removes, call.num_adds,
                                 call.s, call.lines[call.k]),
                  !.body = IF /\ call.lines[call.k] # CONFLICT_START_LINE
                              /\ call.s.conflict_start.some
                              /\ call.lines[call.k] = CONFLICT_END_LINE
                           THEN Some(ConflictBody(call.input, call.s))
                           ELSE None]
    /\ UNCHANGED <<file_table, conflict_table>>

\* the end of the loop and the result (conflicts.rs:259-266)
ScanFinish ==
    /\ call.op = "scan"
    /\ call.k > Len(call.lines)
    /\ call' = [op |-> "scanned",
                input |-> call.input,
                num_removes |-> call.num_removes,
                num_adds |-> call.num_adds,
                result |-> ScanResult(call.input, call.s)]
    /\ UNCHANGED <<file_table, conflict_table>>

NextScan == ScanStep \/ ScanFinish

SpecScan == InitScan /\ [][NextScan]_vars

(***************************************************************************)
(* SpecHunkScan: the loop of parse_conflict_hunk taken one line at a time  *)
(* over a block body.  The call holds the lines, the index k of the next   *)
(* line, the locals s of the loop and the locals prev before the last      *)
(* line.                                                                   *)
(***************************************************************************)
MaxHunkLines == 4

\* the lines of a body: the minus and plus markers, the three prefixed
\* lines, a plain line and an empty line
HunkLines ==
    {CONFLICT_MINUS_LINE, CONFLICT_PLUS_LINE, <<"-", "a", "\n">>,
     <<"+", "b", "\n">>, <<" ", "c", "\n">>, <<"a", "\n">>, <<"\n">>}

HunkBodies == {Concat(ls) : ls \in SeqsUpTo(HunkLines, MaxHunkLines)}

InitHunkScan ==
    /\ file_table = <<>>
    /\ conflict_table = <<>>
    /\ \E input \in HunkBodies :
         call = [op |-> "hunk_scan",
                 input |-> input,
                 lines |-> SplitInclusive(input),
                 k |-> 1,
                 s |-> HunkStart,
                 prev |-> HunkStart]

\* one iteration of the loop at conflicts.rs:275-313
HunkStep ==
    /\ call.op = "hunk_scan"
    /\ call.k <= Len(call.lines)
    /\ call' = [call EXCEPT !.k = @ + 1,
                            !.prev = call.s,
                            !.s = HunkLine(call.s, call.lines[call.k])]
    /\ UNCHANGED <<file_table, conflict_table>>

\* the hunk returned by parse_conflict_hunk
HunkFinish ==
    /\ call.op = "hunk_scan"
    /\ call.k > Len(call.lines)
    /\ call' = [op |-> "hunk_scanned",
                input |-> call.input,
                returned |-> call.s.returned,
                result |-> HunkResult(call.s)]
    /\ UNCHANGED <<file_table, conflict_table>>

NextHunkScan == HunkStep \/ HunkFinish

SpecHunkScan == InitHunkScan /\ [][NextHunkScan]_vars

(***************************************************************************)
(* What the claims speak of.                                               *)
(***************************************************************************)
MarkerLines ==
    {CONFLICT_START_LINE, CONFLICT_END_LINE, CONFLICT_MINUS_LINE,
     CONFLICT_PLUS_LINE}

\* the blocks of a text given as lines: a start-marker line, an end-marker
\* line after it, and between them neither a start nor an end marker
Blocks(lines) ==
    {b \in (1..Len(lines)) \X (1..Len(lines)) :
       /\ b[1] < b[2]
       /\ lines[b[1]] = CONFLICT_START_LINE
       /\ lines[b[2]] = CONFLICT_END_LINE
       /\ \A k \in (b[1] + 1)..(b[2] - 1) :
            lines[k] \notin {CONFLICT_START_LINE, CONFLICT_END_LINE}}

\* the lines of a block between its markers
BodyLines(lines, b) == SubSeq(lines, b[1] + 1, b[2] - 1)

\* how many of the lines are the line l
Count(lines, l) == Cardinality({k \in 1..Len(lines) : lines[k] = l})

\* the Conflict hunks of a parse result
ConflictHunksOf(result) ==
    IF result.some
    THEN SelectSeq(result.value, LAMBDA h : h.kind = "Conflict")
    ELSE <<>>

IsPrefix(p, x) == Len(p) <= Len(x) /\ SubSeq(x, 1, Len(p)) = p
IsSuffix(p, x) == Len(p) <= Len(x) /\ SubSeq(x, Len(x) - Len(p) + 1, Len(x)) = p

Updating == call.op = "update_conflict_from_content"

\* some removed or added part is not a plain non-executable regular file
HasNonFilePart(conflict) ==
    \/ \E i \in 1..Len(conflict.removes) : ~IsPlainFile(conflict.removes[i].value)
    \/ \E j \in 1..Len(conflict.adds) : ~IsPlainFile(conflict.adds[j].value)

(***************************************************************************)
(* C1 (SpecRound).  Round trip: a conflict of plain files that the merge   *)
(* leaves with a conflict hunk is materialized, the output parsed with the *)
(* conflict's arity, and the buffers rebuilt from the hunks as             *)
(* update_conflict_from_content rebuilds them; the parse succeeds and the  *)
(* buffers equal the contents of the removes and of the adds.              *)
(***************************************************************************)
C1_RoundTrip ==
    /\ (/\ call.op = "parse_conflict"
        /\ Merge(ContentsOf(file_table, call.conflict.removes),
                 ContentsOf(file_table, call.conflict.adds)).kind = "Conflict")
       => call.result.some
    /\ call.op = "rebuild"
       => /\ ~call.result.panicked
          /\ call.result.removed_content
               = ContentsOf(file_table, call.conflict.removes)
          /\ call.result.added_content
               = ContentsOf(file_table, call.conflict.adds)

(***************************************************************************)
(* C2 (Spec).  No-op stability: update_conflict_from_content called with   *)
(* the materialization of the stored conflict returns the conflict id it   *)
(* was given, whatever the parts of the conflict are.                      *)
(***************************************************************************)
C2_NoOpStability ==
    (Updating /\ call.content = call.old_content)
    => /\ call.result.status = "Ok"
       /\ call.result.value = Some(call.conflict_id)

\* an unedited conflict with a part that is not a plain file keeps its id
C2_Witness ==
    /\ Updating
    /\ call.content = call.old_content
    /\ HasNonFilePart(call.conflict)
    /\ call.result.value = Some(call.conflict_id)

(***************************************************************************)
(* C3 (Spec).  A conflict with a part that is not a plain file is never    *)
(* edited back through the markers: update_conflict_from_content writes no *)
(* blob for it and returns no updated conflict id.                         *)
(***************************************************************************)
C3_NonFileNeverEdited ==
    (Updating /\ HasNonFilePart(call.conflict))
    => /\ call.result.written = <<>>
       /\ file_table = call.files
       /\ ~(/\ call.result.status = "Ok"
            /\ call.result.value.some
            /\ call.result.value # Some(call.conflict_id))

(***************************************************************************)
(* C4 (SpecParse).  Arity rejection: every Conflict hunk parse_conflict    *)
(* returns has num_removes removes and num_adds adds; the Conflict hunks   *)
(* returned are as many as the blocks with a well-formed body of           *)
(* num_removes minus groups and num_adds plus groups, so a block of        *)
(* another arity is never returned; and when the only block of the text    *)
(* has another arity the result is absent.                                 *)
(***************************************************************************)
\* the block has a well-formed body with the expected numbers of groups
Accepted(lines, b, num_removes, num_adds) ==
    /\ ParseConflictHunk(Concat(BodyLines(lines, b))).kind = "Conflict"
    /\ Count(BodyLines(lines, b), CONFLICT_MINUS_LINE) = num_removes
    /\ Count(BodyLines(lines, b), CONFLICT_PLUS_LINE) = num_adds

C4_ArityRejection ==
    call.op = "parse_conflict"
    => LET lines == SplitInclusive(call.input)
           found == ConflictHunksOf(call.result)
       IN /\ \A k \in 1..Len(found) :
               /\ Len(found[k].removes) = call.num_removes
               /\ Len(found[k].adds) = call.num_adds
          /\ Len(found)
               = Cardinality({b \in Blocks(lines) :
                                Accepted(lines, b, call.num_removes,
                                         call.num_adds)})
          /\ (/\ Cardinality(Blocks(lines)) = 1
              /\ \A b \in Blocks(lines) :
                   ~Accepted(lines, b, call.num_removes, call.num_adds))
             => ~call.result.some

\* the only block of the text is well-formed, of another arity, and the
\* result is absent
C4_Witness ==
    /\ call.op = "parse_conflict"
    /\ LET lines == SplitInclusive(call.input)
       IN /\ Cardinality(Blocks(lines)) = 1
          /\ \A b \in Blocks(lines) :
               /\ ParseConflictHunk(Concat(BodyLines(lines, b))).kind = "Conflict"
               /\ Count(BodyLines(lines, b), CONFLICT_MINUS_LINE) = 1
               /\ Count(BodyLines(lines, b), CONFLICT_PLUS_LINE) = 1
    /\ call.num_removes = 1
    /\ call.num_adds = 2
    /\ ~call.result.some

(***************************************************************************)
(* C5 (Spec).  An unparseable edit is a normal result: when the new        *)
(* content differs from the materialization and parse_conflict with the    *)
(* conflict's arity returns absent, update_conflict_from_content returns   *)
(* Ok(None), neither an error nor a panic.                                 *)
(***************************************************************************)
C5_UnparseableIsUnresolved ==
    (/\ Updating
     /\ call.content # call.old_content
     /\ ~ParseConflict(call.content, Len(call.conflict.removes),
                       Len(call.conflict.adds)).some)
    => /\ call.result.status = "Ok"
       /\ call.result.value = None

\* a block of another arity than the conflict's is reported unresolved
C5_Witness ==
    /\ Updating
    /\ call.content # call.old_content
    /\ Blocks(SplitInclusive(call.content)) # {}
    /\ Len(call.conflict.removes) = 1
    /\ Len(call.conflict.adds) = 2
    /\ call.result.status = "Ok"
    /\ call.result.value = None

(***************************************************************************)
(* C6 (SpecFail).  A failed read or write of a content blob is returned to *)
(* the caller as an error value by materialize_conflict,                   *)
(* conflict_to_materialized_value and update_conflict_from_content, and    *)
(* the failing store call is the last one attempted.                       *)
(***************************************************************************)
\* the store call that failed in the operation read or wrote a content blob
BlobCallFailed ==
    /\ call.op \in {"materialize_conflict", "conflict_to_materialized_value",
                    "update_conflict_from_content"}
    /\ call.fail > 0
    /\ call.op = "materialize_conflict"
       \/ call.result.failed \in {"read_file", "write_file"}

C6_StoreFailurePropagated ==
    BlobCallFailed
    => /\ call.result.status = "Err"
       /\ call.result.calls = call.fail

(***************************************************************************)
(* C7 (Spec).  The fallback for a conflict with a part that is not a plain *)
(* file never round-trips: materialize_conflict emits the header line,     *)
(* then a Removing line per removed part and an Adding line per added      *)
(* part, each ending in the hexadecimal id of its part, in order; no line  *)
(* of the output is a marker line; and parse_conflict returns absent on    *)
(* the output for every expected arity, (0,0) included.                    *)
(***************************************************************************)
C7_FallbackNeverRoundTrips ==
    (call.op = "materialize_conflict" /\ HasNonFilePart(call.conflict))
    => /\ call.result.status = "Ok"
       /\ LET lines == SplitInclusive(call.result.output)
              removes == call.conflict.removes
              adds == call.conflict.adds
          IN /\ Len(lines) = 1 + Len(removes) + Len(adds)
             /\ lines[1] = ConflictHeader
             /\ \A i \in 1..Len(removes) :
                  /\ IsPrefix(RemovingPrefix, lines[1 + i])
                  /\ IsSuffix(Hex(removes[i].value.id) \o <<"\n">>, lines[1 + i])
             /\ \A j \in 1..Len(adds) :
                  /\ IsPrefix(AddingPrefix, lines[1 + Len(removes) + j])
                  /\ IsSuffix(Hex(adds[j].value.id) \o <<"\n">>,
                              lines[1 + Len(removes) + j])
             /\ \A k \in 1..Len(lines) : lines[k] \notin MarkerLines
       /\ \A num_removes \in 0..MaxArity, num_adds \in 0..MaxArity :
            ParseConflict(call.result.output, num_removes, num_adds) = None

\* a conflict of a plain file and a tree is described
C7_Witness ==
    /\ call.op = "materialize_conflict"
    /\ Len(call.conflict.removes) = 1
    /\ Len(call.conflict.adds) >= 1
    /\ call.conflict.removes[1].value.kind = "Tree"
    /\ IsPlainFile(call.conflict.adds[1].value)
    /\ IsPrefix(ConflictHeader, call.result.output)

(***************************************************************************)
(* C8 (SpecHunk).  Arity is preserved end to end: the marked block         *)
(* rendered for a conflict hunk of r removes and a adds, parsed with       *)
(* expected arity (r, a), is returned as one Conflict hunk of r removes    *)
(* and a adds.                                                             *)
(***************************************************************************)
C8_ArityPreserved ==
    call.op = "parse_hunk"
    => /\ call.result.some
       /\ Len(call.result.value) = 1
       /\ call.result.value[1].kind = "Conflict"
       /\ Len(call.result.value[1].removes) = Len(call.removes)
       /\ Len(call.result.value[1].adds) = Len(call.adds)

(***************************************************************************)
(* C9 (Spec).  Reconstruction: the blobs update_conflict_from_content      *)
(* writes after a successful parse are, for the removes in order and then  *)
(* the adds in order, the concatenation over the parsed hunks of the whole *)
(* content of each Resolved hunk and of the matching remove or add of each *)
(* Conflict hunk; on success every part of the new conflict holds the id   *)
(* of its blob.                                                            *)
(***************************************************************************)
\* what the hunks contribute to the i-th buffer of a side
Contribution(hunks, side, i) ==
    Concat([k \in 1..Len(hunks) |->
              IF hunks[k].kind = "Resolved" THEN hunks[k].content
              ELSE hunks[k][side][i]])

ExpectedBlobs(hunks, num_removes, num_adds) ==
    [i \in 1..num_removes |-> Contribution(hunks, "removes", i)]
    \o [j \in 1..num_adds |-> Contribution(hunks, "adds", j)]

C9_Reconstruction ==
    (/\ Updating
     /\ call.result.parsed
     /\ ParseConflict(call.content, Len(call.conflict.removes),
                      Len(call.conflict.adds)).some)
    => LET num_removes == Len(call.conflict.removes)
           num_adds == Len(call.conflict.adds)
           hunks == ParseConflict(call.content, num_removes, num_adds).value
           expected == ExpectedBlobs(hunks, num_removes, num_adds)
           written == call.result.written
       IN /\ Len(written) <= Len(expected)
          /\ \A k \in 1..Len(written) : written[k] = expected[k]
          /\ (call.result.status = "Ok")
             => /\ written = expected
                /\ call.result.value.some
                /\ LET new == ReadObject(conflict_table, call.result.value.value)
                   IN /\ \A i \in 1..num_removes :
                           ReadObject(file_table, new.removes[i].value.id)
                             = expected[i]
                      /\ \A j \in 1..num_adds :
                           ReadObject(file_table, new.adds[j].value.id)
                             = expected[num_removes + j]

\* an edit with a resolved line before a block of two removes and two adds
\* that are not all alike
C9_Witness ==
    /\ Updating
    /\ call.result.status = "Ok"
    /\ Len(call.result.written) = 4
    /\ IsPrefix(<<"r", "\n">> \o CONFLICT_START_LINE, call.content)
    /\ call.result.written[1] # call.result.written[2]
    /\ call.result.written[2] # call.result.written[3]
    /\ call.result.value # Some(call.conflict_id)

(***************************************************************************)
(* C10 (SpecParse).  parse_conflict returns absent exactly when the input  *)
(* is empty or has no block whose body parses as a Conflict of the         *)
(* expected arity; otherwise it returns a sequence of hunks that is not    *)
(* empty and holds a Conflict hunk.  A block is a start-marker line, the   *)
(* first end-marker line after it, and no start marker between them.       *)
(***************************************************************************)
HasValidBlock(input, num_removes, num_adds) ==
    LET lines == SplitInclusive(input)
    IN \E b \in Blocks(lines) :
         LET hunk == ParseConflictHunk(Concat(BodyLines(lines, b)))
         IN /\ hunk.kind = "Conflict"
            /\ Len(hunk.removes) = num_removes
            /\ Len(hunk.adds) = num_adds

C10_AbsentIffNoValidBlock ==
    call.op = "parse_conflict"
    => /\ ~call.result.some
          <=> (\/ call.input = <<>>
               \/ ~HasValidBlock(call.input, call.num_removes, call.num_adds))
       /\ call.result.some
          => /\ call.result.value # <<>>
             /\ \E k \in 1..Len(call.result.value) :
                  call.result.value[k].kind = "Conflict"

\* the resolved text of example 2, parsed with arity (2,1), is absent
C10_Witness ==
    /\ call.op = "parse_conflict"
    /\ call.input = MergedText
    /\ call.num_removes = 2
    /\ call.num_adds = 1
    /\ call.result = None

(***************************************************************************)
(* C11 (SpecDiff).  Embedded-diff correctness: for a remove slice and an   *)
(* add slice that are byte-identical, write_diff_hunks emits one line per  *)
(* line of the slice, in order, each a single space followed by the line;  *)
(* no line with a minus or plus prefix is emitted, stripping the first     *)
(* byte of every emitted line gives the slice back, and nothing is emitted *)
(* for the empty slice.                                                    *)
(***************************************************************************)
C11_EmbeddedDiffOfIdentical ==
    (call.op = "write_diff_hunks" /\ call.left = call.right)
    => LET emitted == SplitInclusive(call.output)
           lines == SplitInclusive(call.left)
       IN /\ Len(emitted) = Len(lines)
          /\ \A k \in 1..Len(emitted) : emitted[k] = <<" ">> \o lines[k]
          /\ Concat([k \in 1..Len(emitted) |-> Tail(emitted[k])]) = call.left
          /\ call.left = <<>> => call.output = <<>>

\* two lines, the first looking like a diff line, the last without a newline
C11_Witness ==
    /\ call.op = "write_diff_hunks"
    /\ call.left = call.right
    /\ call.left = <<"-", "c", "\n", "a">>
    /\ call.output = <<" ", "-", "c", "\n", " ", "a">>

(***************************************************************************)
(* C12 (SpecParse).  Example 1, parse side: parse_conflict on the text     *)
(* "a\n<<<<<<<\n-------\n+++++++\n a\n-b\n+x\n c\n>>>>>>>\n" with arity   *)
(* (1,1) returns the Resolved hunk "a\n" and then exactly one Conflict     *)
(* hunk, with removes = ["a\nb\nc\n"] and adds = ["a\nx\nc\n"]: a         *)
(* space-prefixed line is appended, without its prefix, to both buffers.   *)
(***************************************************************************)
ParsingExample1 ==
    /\ call.op = "parse_conflict"
    /\ call.input = Example1Text
    /\ call.num_removes = 1
    /\ call.num_adds = 1

C12_Example1Parse ==
    ParsingExample1
    => call.result
         = Some(<<Resolved(<<"a", "\n">>),
                  ConflictHunk(<<<<"a", "\n", "b", "\n", "c", "\n">>>>,
                               <<<<"a", "\n", "x", "\n", "c", "\n">>>>)>>)

\* example 1 has been parsed and a Conflict hunk returned
C12_Witness ==
    /\ ParsingExample1
    /\ Len(ConflictHunksOf(call.result)) = 1

\* C12 as the claim states it: the one Conflict hunk has removes = ["b\n"]
\* and adds = ["x\n"]
C12_Example1AsStated ==
    ParsingExample1
    => /\ Len(ConflictHunksOf(call.result)) = 1
       /\ ConflictHunksOf(call.result)[1].removes = <<<<"b", "\n">>>>
       /\ ConflictHunksOf(call.result)[1].adds = <<<<"x", "\n">>>>

(***************************************************************************)
(* C13 (SpecParse).  The output partitions the input: when parse_conflict  *)
(* returns hunks, the Resolved hunks and, in place of each Conflict hunk,  *)
(* the bytes of its accepted block from the start-marker line through the  *)
(* end-marker line, concatenated in order, are the input; every Resolved   *)
(* hunk is non-empty; and the bytes of every rejected block, marker lines  *)
(* included, lie inside a Resolved hunk.                                   *)
(***************************************************************************)
\* the bytes of a block, marker lines included
BlockText(lines, b) == Concat(SubSeq(lines, b[1], b[2]))

\* the accepted blocks of the lines
AcceptedBlocks(lines, num_removes, num_adds) ==
    {b \in Blocks(lines) : Accepted(lines, b, num_removes, num_adds)}

\* the n-th block of the set in the order of the text
NthBlock(S, n) == CHOOSE b \in S : Cardinality({c \in S : c[1] < b[1]}) = n - 1

\* how many of the first k hunks are Conflict hunks
ConflictRank(hunks, k) ==
    Cardinality({j \in 1..k : hunks[j].kind = "Conflict"})

\* the input bytes each hunk stands for
HunkTexts(hunks, lines, S) ==
    [k \in 1..Len(hunks) |->
       IF hunks[k].kind = "Resolved" THEN hunks[k].content
       ELSE BlockText(lines, NthBlock(S, ConflictRank(hunks, k)))]

\* the byte offset in the text at which the i-th line starts
LineOffset(lines, i) == Len(Concat(SubSeq(lines, 1, i - 1)))

\* the byte offset in the text at which the k-th hunk starts
HunkOffset(texts, k) == Len(Concat(SubSeq(texts, 1, k - 1)))

C13_OutputPartitionsInput ==
    (call.op = "parse_conflict" /\ call.result.some)
    => LET lines == SplitInclusive(call.input)
           hunks == call.result.value
           S == AcceptedBlocks(lines, call.num_removes, call.num_adds)
           texts == HunkTexts(hunks, lines, S)
       IN /\ ConflictRank(hunks, Len(hunks)) = Cardinality(S)
          /\ Concat(texts) = call.input
          /\ \A k \in 1..Len(hunks) :
               hunks[k].kind = "Resolved" => hunks[k].content # <<>>
          /\ \A b \in Blocks(lines) \ S :
               \E k \in 1..Len(hunks) :
                 /\ hunks[k].kind = "Resolved"
                 /\ HunkOffset(texts, k) <= LineOffset(lines, b[1])
                 /\ LineOffset(lines, b[2] + 1)
                      <= HunkOffset(texts, k) + Len(texts[k])

\* a rejected block, a plain line, an accepted block and an open last line
C13_Witness ==
    /\ call.op = "parse_conflict"
    /\ call.input = TwoBlocksText
    /\ call.num_removes = 0
    /\ call.num_adds = 1
    /\ call.result.some
    /\ Len(call.result.value) = 3
    /\ call.result.value[1].kind = "Resolved"
    /\ call.result.value[2].kind = "Conflict"
    /\ call.result.value[3] = Resolved(<<"a">>)

(***************************************************************************)
(* C14 (SpecScan).  A start marker inside an open block restarts the       *)
(* block: after every line of the scan a block is open exactly when no     *)
(* end-marker line follows the last start-marker line, and it starts at    *)
(* that start marker, so at most one block is open; the body handed to     *)
(* parse_conflict_hunk at an end-marker line is the lines after the most   *)
(* recent start marker; when that block is accepted, an earlier start      *)
(* marker of the open block and the lines up to the later one end the      *)
(* preceding Resolved hunk; and an end-marker line met while no block is   *)
(* open changes nothing but the position.                                  *)
(***************************************************************************)
\* the index of the last start-marker line before the k-th line, or 0
LastStartBefore(lines, k) ==
    IF \E j \in 1..(k - 1) : lines[j] = CONFLICT_START_LINE
    THEN CHOOSE j \in 1..(k - 1) :
           /\ lines[j] = CONFLICT_START_LINE
           /\ \A i \in (j + 1)..(k - 1) : lines[i] # CONFLICT_START_LINE
    ELSE 0

\* a block is open when the k-th line is met
OpenBefore(lines, k) ==
    /\ LastStartBefore(lines, k) > 0
    /\ \A i \in (LastStartBefore(lines, k) + 1)..(k - 1) :
         lines[i] # CONFLICT_END_LINE

\* the hunk of the body is one parse_conflict accepts
AcceptedBody(body, num_removes, num_adds) ==
    /\ ParseConflictHunk(body).kind = "Conflict"
    /\ Len(ParseConflictHunk(body).removes) = num_removes
    /\ Len(ParseConflictHunk(body).adds) = num_adds

C14_StartInsideOpenBlock ==
    call.op = "scan"
    => LET lines == call.lines
           k == call.k
           l == call.k - 1
           start == LastStartBefore(lines, l)
           hunks == call.s.hunks
       IN /\ call.s.conflict_start.some <=> OpenBefore(lines, k)
          /\ call.s.conflict_start.some
             => call.s.conflict_start.value
                  = LineOffset(lines, LastStartBefore(lines, k))
          /\ k > 1
             => /\ call.body.some
                   <=> (lines[l] = CONFLICT_END_LINE /\ OpenBefore(lines, l))
                /\ call.body.some
                   => call.body.value = Concat(SubSeq(lines, start + 1, l - 1))
                /\ (/\ call.body.some
                    /\ AcceptedBody(call.body.value, call.num_removes,
                                    call.num_adds))
                   => /\ hunks # <<>>
                      /\ hunks[Len(hunks)].kind = "Conflict"
                      /\ \A j \in 1..(start - 1) :
                           (/\ lines[j] = CONFLICT_START_LINE
                            /\ \A i \in (j + 1)..(start - 1) :
                                 lines[i] # CONFLICT_END_LINE)
                           => /\ Len(hunks) >= 2
                              /\ hunks[Len(hunks) - 1].kind = "Resolved"
                              /\ IsSuffix(Concat(SubSeq(lines, j, start - 1)),
                                          hunks[Len(hunks) - 1].content)
                /\ (lines[l] = CONFLICT_END_LINE /\ ~OpenBefore(lines, l))
                   => call.s = [call.prev EXCEPT !.pos = @ + Len(lines[l])]

\* a start marker, a line, a second start marker and an end marker: the
\* empty body after the second start marker is accepted with arity (0,0)
C14_Witness ==
    /\ call.op = "scan"
    /\ call.lines = <<CONFLICT_START_LINE, <<"a", "\n">>, CONFLICT_START_LINE,
                      CONFLICT_END_LINE>>
    /\ call.k = 5
    /\ call.body = Some(<<>>)
    /\ call.s.hunks = <<Resolved(CONFLICT_START_LINE \o <<"a", "\n">>),
                        ConflictHunk(<<>>, <<>>)>>

(***************************************************************************)
(* C15 (SpecHunkScan).  Malformed bodies are never accepted: when          *)
(* parse_conflict_hunk meets a line that is no minus or plus marker while  *)
(* neither section is open, or such a line whose first byte is not a       *)
(* minus, a plus or a space while both are open, it gives up and returns   *)
(* the empty Resolved hunk, and parse_conflict rejects the block with that *)
(* body for every arity, (0,0) included.  While both sections are open a   *)
(* minus line is appended without its prefix to the latest remove buffer   *)
(* only, a plus line to the latest add buffer only, and a space line to    *)
(* both.                                                                   *)
(***************************************************************************)
\* the line is neither the minus nor the plus marker
IsBodyLine(line) == line \notin {CONFLICT_MINUS_LINE, CONFLICT_PLUS_LINE}

\* the buffers with rest appended to the last one
LastExtended(buffers, rest) ==
    [i \in 1..Len(buffers) |->
       IF i = Len(buffers) THEN buffers[i] \o rest ELSE buffers[i]]

C15_MalformedBodyRejected ==
    /\ (call.op = "hunk_scan" /\ call.k > 1 /\ ~call.prev.returned)
       => LET line == call.lines[call.k - 1]
              prev == call.prev
              both == prev.minus_seen /\ prev.plus_seen
          IN /\ (/\ IsBodyLine(line)
                  /\ ~prev.minus_seen
                  /\ ~prev.plus_seen)
                => call.s.returned
             /\ (IsBodyLine(line) /\ both /\ line[1] \notin {"-", "+", " "})
                => call.s.returned
             /\ (IsBodyLine(line) /\ both /\ line[1] = "-")
                => /\ ~call.s.returned
                   /\ call.s.removes = LastExtended(prev.removes, Tail(line))
                   /\ call.s.adds = prev.adds
             /\ (IsBodyLine(line) /\ both /\ line[1] = "+")
                => /\ ~call.s.returned
                   /\ call.s.removes = prev.removes
                   /\ call.s.adds = LastExtended(prev.adds, Tail(line))
             /\ (IsBodyLine(line) /\ both /\ line[1] = " ")
                => /\ ~call.s.returned
                   /\ call.s.removes = LastExtended(prev.removes, Tail(line))
                   /\ call.s.adds = LastExtended(prev.adds, Tail(line))
    /\ (call.op = "hunk_scan" /\ call.prev.returned) => call.s.returned
    /\ (call.op = "hunk_scanned" /\ call.returned)
       => /\ call.result = Resolved(<<>>)
          /\ \A num_removes \in 0..MaxArity, num_adds \in 0..MaxArity :
               ParseConflict(CONFLICT_START_LINE \o call.input
                               \o CONFLICT_END_LINE,
                             num_removes, num_adds) = None

\* a body whose third line is plain while both sections are open
C15_Witness ==
    /\ call.op = "hunk_scanned"
    /\ call.input = CONFLICT_MINUS_LINE \o CONFLICT_PLUS_LINE \o <<"a", "\n">>
    /\ call.returned
    /\ call.result = Resolved(<<>>)

(***************************************************************************)
(* C16 (Spec).  update_conflict_from_content leaves the store unchanged    *)
(* unless it returns a new identity from a successful parse: a changed     *)
(* store means the call returned Ok with an identity after the parse       *)
(* succeeded; when the content equals the materialization, or the parse    *)
(* returned absent, no blob write and no conflict write is issued; no blob *)
(* is written unless the parse succeeded; and the conflict is written only *)
(* after a blob has been written for every remove and every add.           *)
(***************************************************************************)
\* the store calls of the update before its first write: read_conflict and
\* the reads of the materialization
CallsBeforeWrites(conflict) ==
    IF HasNonFilePart(conflict) THEN 1
    ELSE 1 + Len(conflict.removes) + Len(conflict.adds)

\* store.write_conflict has been called
ConflictWriteIssued ==
    call.result.calls
      > CallsBeforeWrites(call.conflict) + Len(call.result.written)

\* the files or the conflicts of the store are not what they were
StoreChanged ==
    \/ file_table # call.files
    \/ conflict_table # <<call.conflict>>

C16_StoreUnchangedUnlessNewIdentity ==
    Updating
    => LET parsed == ParseConflict(call.content, Len(call.conflict.removes),
                                   Len(call.conflict.adds))
       IN /\ StoreChanged
             => /\ call.result.status = "Ok"
                /\ call.result.value.some
                /\ call.content # call.old_content
                /\ parsed.some
          /\ (call.content = call.old_content \/ ~parsed.some)
             => /\ call.result.written = <<>>
                /\ ~ConflictWriteIssued
                /\ ~StoreChanged
          /\ call.result.written # <<>> => parsed.some
          /\ ConflictWriteIssued
             => Len(call.result.written)
                  = Len(call.conflict.removes) + Len(call.conflict.adds)

(***************************************************************************)
(* C17 (Spec).  On the success path of update_conflict_from_content for a  *)
(* conflict whose parts are all regular files, the conflict persisted has  *)
(* as many removes and adds as the stored one, in the same order; every    *)
(* part is still a regular file with the executable flag it had, and its   *)
(* id is the id of the blob written for its index.  No index is out of     *)
(* bounds: every parsed Conflict hunk has the stored conflict's arity and  *)
(* the call does not panic.                                                *)
(***************************************************************************)
\* every part of the conflict is a regular file, executable or not
AllRegularFiles(conflict) ==
    /\ \A i \in 1..Len(conflict.removes) :
         conflict.removes[i].value.kind = "Normal"
    /\ \A j \in 1..Len(conflict.adds) :
         conflict.adds[j].value.kind = "Normal"

\* the part is the old one with the id of the blob
IdReplaced(new_part, old_part, blob) ==
    /\ new_part.value.kind = "Normal"
    /\ new_part.value.executable = old_part.value.executable
    /\ HasObject(file_table, new_part.value.id)
    /\ ReadObject(file_table, new_part.value.id) = blob
    /\ new_part = [old_part EXCEPT !.value.id = new_part.value.id]

C17_OnlyIdsReplaced ==
    (Updating /\ AllRegularFiles(call.conflict))
    => LET old == call.conflict
           num_removes == Len(old.removes)
           num_adds == Len(old.adds)
           parsed == ParseConflict(call.content, num_removes, num_adds)
           written == call.result.written
       IN /\ call.result.status # "Panic"
          /\ \A k \in 1..Len(ConflictHunksOf(parsed)) :
               /\ Len(ConflictHunksOf(parsed)[k].removes) = num_removes
               /\ Len(ConflictHunksOf(parsed)[k].adds) = num_adds
          /\ (call.result.parsed /\ call.result.status = "Ok"
                /\ call.result.value.some)
             => /\ HasObject(conflict_table, call.result.value.value)
                /\ Len(written) = num_removes + num_adds
                /\ LET new == ReadObject(conflict_table,
                                         call.result.value.value)
                   IN /\ Len(new.removes) = num_removes
                      /\ Len(new.adds) = num_adds
                      /\ \A i \in 1..num_removes :
                           IdReplaced(new.removes[i], old.removes[i],
                                      written[i])
                      /\ \A j \in 1..num_adds :
                           IdReplaced(new.adds[j], old.adds[j],
                                      written[num_removes + j])

\* an edit of a conflict of two removes and two adds, one of them an
\* executable file, is persisted under a new id
C17_Witness ==
    /\ Updating
    /\ AllRegularFiles(call.conflict)
    /\ Len(call.conflict.removes) = 2
    /\ Len(call.conflict.adds) = 2
    /\ call.conflict.adds[2].value.executable
    /\ call.result.parsed
    /\ call.result.status = "Ok"
    /\ call.result.value.some
    /\ call.result.value # Some(call.conflict_id)
    /\ ReadObject(conflict_table, call.result.value.value).adds[2].value.executable

====
